---------------------------- MODULE Spec2Model ----------------------------
(***************************************************************************)
(* StudyPal: quiz_app.orchestrate_learning runs a four-question quiz,      *)
(* then app.main turns one PDF into three tiered explanation documents.    *)
(* Texts are TLA+ strings; Len, \o and SubSeq act on them character by     *)
(* character, as Python's len, + and slicing do.                           *)
(***************************************************************************)
EXTENDS Integers, Sequences, FiniteSets, TLC

VARIABLES
    pc,                 \* position of the running program
    mcq_idx,            \* QuizApp.start_quiz: questions answered so far
    score,              \* QuizApp.score
    appropriate_level,  \* orchestrate_learning: the quiz's tier, "" before
    pdf_file,           \* file-system state of pdf_path: the source document
    temp_dir,           \* file-system state of ContentExplainer.temp_image_dir
    title,              \* main: title returned by extraction
    note_text,          \* main: text returned by extraction
    content_type,       \* generate_explanations: detected category
    max_chunk_size,     \* generate_explanations: the chunk bound
    chunks,             \* generate_explanations: the slices of note_text
    level_idx,          \* index in Tiers of the tier being generated/rendered
    chunk_idx,          \* index of the chunk being generated
    full_explanation,   \* generate_explanations: results kept for the tier
    explanations,       \* tier results, in tier order
    prompt,             \* call_llama_with_ollama: the prompt
    max_retries,        \* call_llama_with_ollama: the retry bound
    attempt,            \* call_llama_with_ollama: loop variable
    proc,               \* state of the process held by `process`
    orphans,            \* spawned processes no longer held and still alive
    tries,              \* Popen calls made by the current invoker call
    fails,              \* failed attempts of the current invoker call
    waits,              \* time.sleep(3) calls of the current invoker call
    stdout,             \* raw output of the successful attempt, "" if none
    succeeded,          \* the current invoker call returned at line 151
    result,             \* value returned by call_llama_with_ollama
    call_log,           \* invoker calls made by generate_explanations
    render_log,         \* create_level_pdf calls made by main
    docs,               \* documents written, in order
    pending,            \* how main's try block ended
    outcome,            \* how main was left
    level_pdf           \* orchestrate_learning: the document recommended

vars == << pc, mcq_idx, score, appropriate_level, pdf_file, temp_dir, title,
           note_text,
           content_type, max_chunk_size, chunks, level_idx, chunk_idx,
           full_explanation, explanations, prompt, max_retries, attempt, proc,
           orphans, tries, fails, waits, stdout, succeeded, result, call_log,
           render_log, docs, pending, outcome, level_pdf >>

-----------------------------------------------------------------------------
(* Bounds of the model. *)

\* largest max_retries the invoker is driven with on its own
MaxRetries == 4
\* the chunking specification slices texts of up to MaxFullChunks full chunks
MaxFullChunks == 3
\* ... whose lengths lie within EdgeSpan of a multiple of the chunk size
EdgeSpan == 12

-----------------------------------------------------------------------------
(* Python string primitives.  A string holds the characters up to U+00FF; *)
(* characters above cannot be written in a string of this module.          *)

Min(a, b) == IF a < b THEN a ELSE b

\* the characters c <= U+00FF with c.isupper(), and c.lower() for each of them
UPPER == "ABCDEFGHIJKLMNOPQRSTUVWXYZÀÁÂÃÄÅÆÇÈÉÊËÌÍÎÏÐÑÒÓÔÕÖØÙÚÛÜÝÞ"
LOWER == "abcdefghijklmnopqrstuvwxyzàáâãäåæçèéêëìíîïðñòóôõöøùúûüýþ"
\* the characters c <= U+00FF with c.islower() whose upper case is not one character
\* <= U+00FF
LOWER_ONLY == "ªµºßÿ"

Char(s, i) == SubSeq(s, i, i)

\* c.isupper()
IsUpper(c) == \E i \in 1..Len(UPPER) : Char(UPPER, i) = c
\* c.islower()
IsLower(c) ==
    \/ \E i \in 1..Len(LOWER) : Char(LOWER, i) = c
    \/ \E i \in 1..Len(LOWER_ONLY) : Char(LOWER_ONLY, i) = c

\* c.lower()
LowerChar(c) ==
    IF IsUpper(c)
    THEN Char(LOWER, CHOOSE i \in 1..Len(UPPER) : Char(UPPER, i) = c)
    ELSE c

\* the characters U+0001..U+005F and U+0061..U+00FF in code point order
ORD_LOW == "\t\n\f\r !\"#$%&'()*+,-./0123456789:;<=>?@ABCDEFGHIJKLMNOPQRSTUVWXYZ[\\]^_"
ORD_HIGH == "abcdefghijklmnopqrstuvwxyz{|}~ ¡¢£¤¥¦§¨©ª«¬­®¯°±²³´µ¶·¸¹º»¼½¾¿ÀÁÂÃÄÅÆÇÈÉÊËÌÍÎÏÐÑÒÓÔÕÖ×ØÙÚÛÜÝÞßàáâãäåæçèéêëìíîïðñòóôõö÷øùúûüýþÿ"

\* the code point of every character of the two tables
CodePoints ==
    [ c \in { Char(ORD_LOW, i) : i \in 1..Len(ORD_LOW) }
            \cup { Char(ORD_HIGH, i) : i \in 1..Len(ORD_HIGH) } |->
        IF \E i \in 1..Len(ORD_LOW) : Char(ORD_LOW, i) = c
        THEN CHOOSE i \in 1..Len(ORD_LOW) : Char(ORD_LOW, i) = c
        ELSE Len(ORD_LOW) + 1 + (CHOOSE i \in 1..Len(ORD_HIGH) : Char(ORD_HIGH, i) = c) ]

\* ord(c)
Ord(c) == CodePoints[c]

\* [ord(c) for c in s]
Codes(s) == [ i \in 1..Len(s) |-> Ord(Char(s, i)) ]

\* c.title() as code points: the title case of "µ" is U+039C and that of "ÿ" is
\* U+0178, the title case of "ß" is "Ss"
TitleChar(c) ==
    IF \E i \in 1..Len(LOWER) : Char(LOWER, i) = c
    THEN << Ord(Char(UPPER, CHOOSE i \in 1..Len(LOWER) : Char(LOWER, i) = c)) >>
    ELSE IF c = "ß" THEN Codes("Ss")
    ELSE IF c = "µ" THEN << 924 >>
    ELSE IF c = "ÿ" THEN << 376 >>
    ELSE << Ord(c) >>

\* str.lower() of the characters lo..hi
RECURSIVE LowerRange(_, _, _)
LowerRange(s, lo, hi) ==
    IF lo > hi THEN ""
    ELSE IF lo = hi THEN LowerChar(Char(s, lo))
    ELSE LET mid == (lo + hi) \div 2
         IN LowerRange(s, lo, mid) \o LowerRange(s, mid + 1, hi)
Lower(s) == LowerRange(s, 1, Len(s))

\* str.title() of the characters lo..hi, as code points: a character is
\* lower-cased after a cased character and title-cased otherwise
RECURSIVE TitleRange(_, _, _)
TitleRange(s, lo, hi) ==
    IF lo > hi THEN << >>
    ELSE IF lo = hi
         THEN LET c == Char(s, lo)
                  previous_is_cased ==
                      lo > 1 /\ (IsUpper(Char(s, lo - 1)) \/ IsLower(Char(s, lo - 1)))
              IN IF previous_is_cased THEN << Ord(LowerChar(c)) >> ELSE TitleChar(c)
    ELSE LET mid == (lo + hi) \div 2
         IN TitleRange(s, lo, mid) \o TitleRange(s, mid + 1, hi)
Title(s) == TitleRange(s, 1, Len(s))

\* the characters c <= U+00FF that str.strip() removes
Whitespace == { "\t", "\n", "", "\f", "\r", "", "", "", "", " ", "", " " }

\* str.strip()
RECURSIVE LStrip(_)
LStrip(s) ==
    IF Len(s) > 0 /\ Char(s, 1) \in Whitespace THEN LStrip(SubSeq(s, 2, Len(s))) ELSE s
RECURSIVE RStrip(_)
RStrip(s) ==
    IF Len(s) > 0 /\ Char(s, Len(s)) \in Whitespace
    THEN RStrip(SubSeq(s, 1, Len(s) - 1)) ELSE s
Strip(s) == RStrip(LStrip(s))

\* s[i:j] for 0 <= i <= j
Slice(s, i, j) == SubSeq(s, i + 1, Min(j, Len(s)))

\* the positions (1-based) at which sub occurs in s
Occurrences(s, sub) ==
    { i \in 1..(Len(s) - Len(sub) + 1) : SubSeq(s, i, i + Len(sub) - 1) = sub }

\* the least position of `at` that is >= i, 0 when there is none
FirstFrom(at, i) ==
    LET rest == { k \in at : k >= i }
    IN IF rest = { } THEN 0 ELSE CHOOSE k \in rest : \A m \in rest : k <= m

\* str.count(marker) for a non-empty marker: the scan of positions lo..hi, which
\* takes an occurrence at or after `from` and goes on behind it
RECURSIVE CountScan(_, _, _, _, _)
CountScan(s, marker, lo, hi, from) ==
    IF lo > hi THEN [ found |-> 0, from |-> from ]
    ELSE IF lo = hi
         THEN IF lo >= from /\ SubSeq(s, lo, lo + Len(marker) - 1) = marker
              THEN [ found |-> 1, from |-> lo + Len(marker) ]
              ELSE [ found |-> 0, from |-> from ]
    ELSE LET mid == (lo + hi) \div 2
             left == CountScan(s, marker, lo, mid, from)
             right == CountScan(s, marker, mid + 1, hi, left.from)
         IN [ found |-> left.found + right.found, from |-> right.from ]
Count(s, marker) == CountScan(s, marker, 1, Len(s) - Len(marker) + 1, 1).found

\* sep.join(list)
RECURSIVE Join(_, _)
Join(sep, list) ==
    IF list = << >> THEN ""
    ELSE IF Len(list) = 1 THEN list[1]
    ELSE list[1] \o sep \o Join(sep, Tail(list))

\* str.split(sep) for a non-empty sep
RECURSIVE Split(_, _)
Split(s, sep) ==
    LET at == FirstFrom(Occurrences(s, sep), 1)
    IN IF at = 0 THEN << s >>
       ELSE << SubSeq(s, 1, at - 1) >> \o Split(SubSeq(s, at + Len(sep), Len(s)), sep)

\* str.replace('\n', ' ') of the characters lo..hi
RECURSIVE ReplaceNewlines(_, _, _)
ReplaceNewlines(s, lo, hi) ==
    IF lo > hi THEN ""
    ELSE IF lo = hi THEN (IF Char(s, lo) = "\n" THEN " " ELSE Char(s, lo))
    ELSE LET mid == (lo + hi) \div 2
         IN ReplaceNewlines(s, lo, mid) \o ReplaceNewlines(s, mid + 1, hi)

\* any(char.isupper() for char in s)
AnyUpper(s) == \E i \in 1..Len(s) : IsUpper(Char(s, i))

-----------------------------------------------------------------------------
(* Content classifier: ContentExplainer.detect_content_type. *)

\* the keys of `markers`, in insertion (iteration) order
Categories == << "technical", "scientific", "theoretical", "educational", "business" >>

markers(category) ==
    CASE category = "technical" ->
           << "algorithm", "implementation", "system", "process", "technical", "architecture" >>
      [] category = "scientific" ->
           << "experiment", "research", "study", "analysis", "data", "methodology" >>
      [] category = "theoretical" ->
           << "theory", "concept", "principle", "framework", "model", "approach" >>
      [] category = "educational" ->
           << "learn", "understand", "explain", "example", "practice", "exercise" >>
      [] category = "business" ->
           << "strategy", "market", "business", "management", "organization", "planning" >>

RECURSIVE SumCounts(_, _, _)
SumCounts(text, ms, i) ==
    IF i > Len(ms) THEN 0 ELSE Count(text, ms[i]) + SumCounts(text, ms, i + 1)

\* scores[category] for an already lower-cased text
KeywordScore(text, category) == SumCounts(text, markers(category), 1)

\* a max() that lets a later item win a tie
BetterOrEqual(candidate, best) == candidate >= best

\* max(): a later item replaces the best one only when its key is greater
Better(candidate, best) == candidate > best

\* max(scores.items(), key=lambda x: x[1])[0], folding over items from i on
RECURSIVE MaxFrom(_, _, _)
MaxFrom(text, i, best) ==
    IF i > Len(Categories) THEN best
    ELSE IF Better(KeywordScore(text, Categories[i]), KeywordScore(text, best))
         THEN MaxFrom(text, i + 1, Categories[i])
         ELSE MaxFrom(text, i + 1, best)

detect_content_type(text) == MaxFrom(Lower(text), 2, Categories[1])

-----------------------------------------------------------------------------
(* Prompt builder: ContentExplainer.generate_prompts. *)

\* the keys of every row of base_prompts, in insertion order
Tiers == << "beginner", "intermediate", "advanced" >>

base_prompts(category) ==
    CASE category = "technical" ->
           << "Please explain this technical content in simple terms for beginners: ",
              "Please provide a detailed technical explanation of: ",
              "Please provide an in-depth technical analysis of: " >>
      [] category = "scientific" ->
           << "Please explain this scientific content in accessible terms: ",
              "Please provide a detailed scientific explanation of: ",
              "Please provide an in-depth scientific analysis of: " >>
      [] category = "theoretical" ->
           << "Please explain these theoretical concepts in simple terms: ",
              "Please provide a detailed theoretical explanation of: ",
              "Please provide an in-depth theoretical analysis of: " >>
      [] category = "educational" ->
           << "Please explain this educational material in student-friendly terms: ",
              "Please provide a comprehensive educational explanation of: ",
              "Please provide an in-depth educational analysis of: " >>
      [] category = "business" ->
           << "Please explain this business content in simple terms: ",
              "Please provide a detailed business analysis of: ",
              "Please provide an in-depth business analysis of: " >>

generate_prompts(category) ==
    IF \E i \in 1..Len(Categories) : Categories[i] = category
    THEN base_prompts(category)
    ELSE base_prompts("educational")

-----------------------------------------------------------------------------
(* Chunking: generate_explanations, lines 171-172. *)

\* max_chunk_size = 3000
RealChunkSize == 3000

\* range(0, n, step) as the set of its values
RangeStarts(n, step) == { i \in 0..(n - 1) : i % step = 0 }

\* a slice one character short
ChunkAtShort(text, i, size) == Slice(text, i, i + size - 1)

\* note_text[i:i+max_chunk_size]
ChunkAt(text, i, size) == Slice(text, i, i + size)

\* [note_text[i:i+size] for i in range(0, len(note_text), size)]
Chunks(text, size) ==
    [ k \in 1..Cardinality(RangeStarts(Len(text), size)) |->
        ChunkAt(text, (k - 1) * size, size) ]


-----------------------------------------------------------------------------
(* Quiz: QuizApp. *)

mcqs == <<
    [ options |-> << "To minimize CPU utilization",
                     "To make full use of CPU cycles during I/O wait times",
                     "To increase I/O wait times",
                     "To reduce the time needed for context switching" >>,
      answer  |-> "To make full use of CPU cycles during I/O wait times" ],
    [ options |-> << "Alternating between CPU execution and memory storage",
                     "Alternating between CPU calculations and I/O wait times",
                     "Continuous CPU calculations only",
                     "Continuous I/O wait times only" >>,
      answer  |-> "Alternating between CPU calculations and I/O wait times" ],
    [ options |-> << "Ready Queue", "Job Queue", "Waiting Queue", "Device Queue" >>,
      answer  |-> "Job Queue" ],
    [ options |-> << "To manage the job queue by loading processes into memory for execution",
                     "To handle device requests in the waiting queue",
                     "To control I/O processes only",
                     "To schedule jobs directly to the CPU" >>,
      answer  |-> "To manage the job queue by loading processes into memory for execution" ] >>

\* QuizApp.get_level
get_level(s) ==
    LET total_questions == Len(mcqs)
        percentage == (s * 100) \div total_questions
    IN IF percentage < 40 THEN "beginner"
       ELSE IF 40 <= percentage /\ percentage < 70 THEN "intermediate"
       ELSE "advanced"

-----------------------------------------------------------------------------
(* Inputs the environment supplies. *)

FAILED == "Failed to generate explanation after multiple attempts."
NO_EXPLANATION == "No explanation generated."

\* what the generation process may print before exiting with status 0: a text that
\* names the last words of its prompt, or a text that reads like the failure
\* sentinel
Outputs(p) ==
    { " Re: " \o SubSeq(p, Len(p) - Min(Len(p), 12) + 1, Len(p)) \o " \n",
      FAILED \o "\n" }

\* a page of RealChunkSize characters
Block6 == "Queue "
Block30 == Block6 \o Block6 \o Block6 \o Block6 \o Block6
Block300 == Block30 \o Block30 \o Block30 \o Block30 \o Block30
            \o Block30 \o Block30 \o Block30 \o Block30 \o Block30
LongPage == Block300 \o Block300 \o Block300 \o Block300 \o Block300
            \o Block300 \o Block300 \o Block300 \o Block300 \o Block300

\* source documents: whether the file exists and parses, its /Title, its pages' texts
ShortPdfs ==
        { [ exists |-> TRUE,  readable |-> TRUE,  meta_title |-> "Été",
            pages |-> << "data", "Study" >> ],
          [ exists |-> TRUE,  readable |-> TRUE,  meta_title |-> "", pages |-> << " Top \nx" >> ],
          [ exists |-> TRUE,  readable |-> TRUE,  meta_title |-> "Empty", pages |-> << "" >> ],
          [ exists |-> TRUE,  readable |-> TRUE,  meta_title |-> "", pages |-> << >> ],
          [ exists |-> TRUE,  readable |-> FALSE, meta_title |-> "", pages |-> << >> ],
          [ exists |-> FALSE, readable |-> FALSE, meta_title |-> "", pages |-> << >> ] }

Pdfs ==
    ShortPdfs \cup { [ exists |-> TRUE, readable |-> TRUE, meta_title |-> "OS Notes",
                       pages |-> << LongPage, "data Study" >> ] }

\* what temp_images is before the program starts
TempDirStates == { "absent", "empty", "nonempty", "file" }

-----------------------------------------------------------------------------
(* Extraction: ContentExplainer.extract_text_and_title_from_pdf. *)

\* open() or PdfReader raises, or pages[0] of a document without pages
ExtractionFails(pdf) ==
    \/ ~pdf.exists
    \/ ~pdf.readable
    \/ pdf.meta_title = "" /\ pdf.pages = << >>

ExtractTitle(pdf) ==
    IF pdf.meta_title # "" THEN pdf.meta_title
    ELSE Strip(Split(pdf.pages[1], "\n")[1])

ExtractText(pdf) == Join(" ", pdf.pages)

-----------------------------------------------------------------------------
(* Rendering: ContentExplainer.create_level_pdf. *)

HeadingMaxLen == 100

level_titles(level) ==
    CASE level = "beginner" -> "Beginner-Friendly Guide"
      [] level = "intermediate" -> "Comprehensive Guide"
      [] level = "advanced" -> "Advanced Analysis"

IsTopic(section) == Len(section) < HeadingMaxLen /\ AnyUpper(section)

RECURSIVE SectionBlocks(_, _)
SectionBlocks(sections, i) ==
    IF i > Len(sections) THEN << >>
    ELSE LET section == Strip(sections[i])
         IN (IF section = "" THEN << >>
             ELSE IF IsTopic(section)
                  THEN << [ style |-> "Topic", text |-> section ] >>
                  ELSE << [ style |-> "Normal", text |-> ReplaceNewlines(section, 1, Len(section)) ],
                          [ style |-> "Spacer", text |-> "" ] >>)
            \o SectionBlocks(sections, i + 1)

\* the blocks handed to doc.build; the subtitle is held as code points, the other
\* texts as strings
Story(content, doc_title, level, category) ==
    << [ style |-> "Title", text |-> doc_title ],
       [ style |-> "Heading1",
         text  |-> Codes(level_titles(level) \o " - ") \o Title(category)
                   \o Codes(" Content") ],
       [ style |-> "Spacer", text |-> "" ] >>
    \o SectionBlocks(Split(content, "\n\n"), 1)

\* a file name that forgets the tier
OutputFilenameFixed(level) == "guide.pdf"

\* main, line 243
OutputFilename(level) == level \o "_guide.pdf"


-----------------------------------------------------------------------------
(* Variable groups. *)

quizVars == << mcq_idx, score, appropriate_level, level_pdf >>
mainVars == << pdf_file, temp_dir, title, note_text, render_log, docs, pending, outcome >>
genVars  == << content_type, max_chunk_size, chunks, level_idx, chunk_idx,
               full_explanation, explanations, call_log >>
invVars  == << prompt, max_retries, attempt, proc, orphans, tries, fails, waits,
               stdout, succeeded, result >>

\* spawned processes alive now
Alive == orphans + (IF proc = "running" THEN 1 ELSE 0)

-----------------------------------------------------------------------------
(* Quiz actions: QuizApp.start_quiz, orchestrate_learning. *)

\* a valid answer to the current question
AnswerQuestion ==
    /\ pc = "quiz"
    /\ mcq_idx < Len(mcqs)
    /\ \E user_choice \in 1..4 :
         LET mcq == mcqs[mcq_idx + 1]
             selected_option == mcq.options[user_choice]
         IN score' = IF selected_option = mcq.answer THEN score + 1 ELSE score
    /\ mcq_idx' = mcq_idx + 1
    /\ UNCHANGED << pc, appropriate_level, level_pdf, mainVars, genVars, invVars >>

\* a number outside 1..4, or a non-number: the question is asked again
InvalidAnswer ==
    /\ pc = "quiz"
    /\ mcq_idx < Len(mcqs)
    /\ UNCHANGED vars

\* return self.get_level()
FinishQuiz ==
    /\ pc = "quiz"
    /\ mcq_idx = Len(mcqs)
    /\ appropriate_level' = get_level(score)
    /\ pc' = "path_check"
    /\ UNCHANGED << mcq_idx, score, level_pdf, mainVars, genVars, invVars >>

\* if not pdf_path.exists(): return
PdfMissing ==
    /\ pc = "path_check"
    /\ ~pdf_file.exists
    /\ pc' = "not_found"
    /\ UNCHANGED << quizVars, mainVars, genVars, invVars >>

\* generate_pdfs(str(pdf_path))
PdfFound ==
    /\ pc = "path_check"
    /\ pdf_file.exists
    /\ pc' = "construct"
    /\ UNCHANGED << quizVars, mainVars, genVars, invVars >>

\* after generate_pdfs returned: level_pdf = f"{appropriate_level}_guide.pdf"
Recommend ==
    /\ pc = "main_left"
    /\ outcome = "return"
    /\ level_pdf' = appropriate_level \o "_guide.pdf"
    /\ pc' = "done"
    /\ UNCHANGED << mcq_idx, score, appropriate_level, mainVars, genVars, invVars >>

-----------------------------------------------------------------------------
(* main: construction, extraction. *)

\* ContentExplainer(): temp_image_dir.mkdir(exist_ok=True), before the try block
Construct ==
    /\ pc = "construct"
    /\ IF temp_dir = "file"
       THEN /\ outcome' = "raise:mkdir"
            /\ pc' = "main_left"
            /\ UNCHANGED temp_dir
       ELSE /\ temp_dir' = IF temp_dir = "absent" THEN "empty" ELSE temp_dir
            /\ pc' = "extract"
            /\ UNCHANGED outcome
    /\ UNCHANGED << pdf_file, title, note_text, render_log, docs, pending,
                    quizVars, genVars, invVars >>

\* title, note_text = explainer.extract_text_and_title_from_pdf(pdf_path)
Extract ==
    /\ pc = "extract"
    /\ IF ExtractionFails(pdf_file)
       THEN /\ pending' = "raise:extract"
            /\ pc' = "cleanup"
            /\ UNCHANGED << title, note_text >>
       ELSE /\ title' = ExtractTitle(pdf_file)
            /\ note_text' = ExtractText(pdf_file)
            /\ pc' = "generate"
            /\ UNCHANGED pending
    /\ UNCHANGED << pdf_file, temp_dir, render_log, docs, outcome, quizVars, genVars, invVars >>

-----------------------------------------------------------------------------
(* generate_explanations. *)

\* lines 167-174: classify, pick the prompts, slice the text
StartGenerate ==
    /\ pc = "generate"
    /\ content_type' = detect_content_type(note_text)
    /\ max_chunk_size' = RealChunkSize
    /\ chunks' = Chunks(note_text, RealChunkSize)
    /\ explanations' = << >>
    /\ level_idx' = 1
    /\ chunk_idx' = 1
    /\ full_explanation' = << >>
    /\ pc' = "gen_loop"
    /\ UNCHANGED << call_log, quizVars, mainVars, invVars >>

DefaultMaxRetries == 3

\* f"{prompt_template}\n\n{chunk}"
BuildPrompt(prompt_template, chunk) == prompt_template \o "\n\n" \o chunk

\* lines 177-179: the next chunk of the tier is handed to the invoker
CallInvoker ==
    /\ pc = "gen_loop"
    /\ level_idx <= Len(Tiers)
    /\ chunk_idx <= Len(chunks)
    /\ prompt' = BuildPrompt(generate_prompts(content_type)[level_idx], chunks[chunk_idx])
    /\ max_retries' = DefaultMaxRetries
    /\ attempt' = 0
    /\ pc' = "inv_attempt"
    /\ UNCHANGED << proc, orphans, tries, fails, waits, stdout, succeeded, result,
                    quizVars, mainVars, genVars >>

\* an aggregation that keeps the failure sentinel as text
KeptAlways(chunk_explanation) == TRUE

\* line 180: a result is kept unless it equals the failure sentinel
Kept(chunk_explanation) == chunk_explanation # FAILED

\* a loop that gives up the tier's remaining chunks after a failed one
NextChunkAbortOnFailure(idx, chunk_explanation) ==
    IF chunk_explanation = FAILED THEN Len(chunks) + 1 ELSE idx + 1

\* the chunk the loop of line 177 takes after chunk number idx, whatever its result
NextChunk(idx, chunk_explanation) == idx + 1

\* lines 179-181: the invoker returned; its frame and its handle are dropped
CollectChunk ==
    /\ pc = "inv_return"
    /\ level_idx > 0
    /\ full_explanation' = IF Kept(result) THEN Append(full_explanation, result)
                           ELSE full_explanation
    /\ call_log' = Append(call_log, [ level |-> Tiers[level_idx], chunk |-> chunk_idx,
                                      succeeded |-> succeeded, result |-> result ])
    /\ chunk_idx' = NextChunk(chunk_idx, result)
    /\ orphans' = Alive
    /\ proc' = "none"
    /\ prompt' = ""
    /\ attempt' = 0
    /\ tries' = 0
    /\ fails' = 0
    /\ waits' = 0
    /\ stdout' = ""
    /\ succeeded' = FALSE
    /\ result' = ""
    /\ pc' = "gen_loop"
    /\ UNCHANGED << max_retries, content_type, max_chunk_size, chunks, level_idx,
                    explanations, quizVars, mainVars >>

\* line 183
Aggregate(kept) == IF kept # << >> THEN Join("\n\n", kept) ELSE NO_EXPLANATION

\* line 183, then the next tier of line 175, or the return of line 185
FinishLevel ==
    /\ pc = "gen_loop"
    /\ level_idx <= Len(Tiers)
    /\ chunk_idx > Len(chunks)
    /\ explanations' = Append(explanations, Aggregate(full_explanation))
    /\ full_explanation' = << >>
    /\ chunk_idx' = 1
    /\ IF level_idx < Len(Tiers)
       THEN /\ level_idx' = level_idx + 1
            /\ pc' = "gen_loop"
       ELSE /\ level_idx' = 1
            /\ pc' = "render"
    /\ UNCHANGED << content_type, max_chunk_size, chunks, call_log,
                    quizVars, mainVars, invVars >>


-----------------------------------------------------------------------------
(* Generation invoker: ContentExplainer.call_llama_with_ollama. *)

\* line 137: another iteration of `for attempt in range(max_retries)`
HasAttempt(a, retries) == a < retries

\* a backoff after every failed attempt, the last one too
ShouldSleepAlways(a, retries) == TRUE

\* line 160
ShouldSleep(a, retries) == a < retries - 1

\* line 139: Popen starts the process
InvSpawn ==
    /\ pc = "inv_attempt"
    /\ HasAttempt(attempt, max_retries)
    /\ tries' = tries + 1
    /\ orphans' = Alive
    /\ proc' = "running"
    /\ pc' = "inv_wait"
    /\ UNCHANGED << prompt, max_retries, attempt, fails, waits, stdout, succeeded,
                    result, quizVars, mainVars, genVars >>

\* line 139 raises (no such program, ...): caught at line 157
InvSpawnFails ==
    /\ pc = "inv_attempt"
    /\ HasAttempt(attempt, max_retries)
    /\ tries' = tries + 1
    /\ fails' = fails + 1
    /\ pc' = "inv_backoff"
    /\ UNCHANGED << prompt, max_retries, attempt, proc, orphans, waits, stdout,
                    succeeded, result, quizVars, mainVars, genVars >>

\* lines 149-151: the process exits with status 0 within the timeout
InvSuccess ==
    /\ pc = "inv_wait"
    /\ \E out \in Outputs(prompt) :
         /\ stdout' = out
         /\ result' = Strip(out)
    /\ proc' = "exited"
    /\ succeeded' = TRUE
    /\ pc' = "inv_return"
    /\ UNCHANGED << prompt, max_retries, attempt, orphans, tries, fails, waits,
                    quizVars, mainVars, genVars >>

\* lines 150, 152: the process exits with another status
InvNonZero ==
    /\ pc = "inv_wait"
    /\ proc' = "exited"
    /\ fails' = fails + 1
    /\ pc' = "inv_backoff"
    /\ UNCHANGED << prompt, max_retries, attempt, orphans, tries, waits, stdout,
                    succeeded, result, quizVars, mainVars, genVars >>

\* lines 153-155: TimeoutExpired, process.kill()
InvTimeout ==
    /\ pc = "inv_wait"
    /\ proc' = "killed"
    /\ fails' = fails + 1
    /\ pc' = "inv_backoff"
    /\ UNCHANGED << prompt, max_retries, attempt, orphans, tries, waits, stdout,
                    succeeded, result, quizVars, mainVars, genVars >>

\* communicate raises something else (OSError or MemoryError while reading the
\* pipes): caught at line 157, which only prints; the process may still run
InvCommRaises ==
    /\ pc = "inv_wait"
    /\ \E still_running \in BOOLEAN :
         /\ proc' = IF still_running THEN "running" ELSE "exited"
    /\ fails' = fails + 1
    /\ pc' = "inv_backoff"
    /\ UNCHANGED << prompt, max_retries, attempt, orphans, tries, waits, stdout,
                    succeeded, result, quizVars, mainVars, genVars >>

\* lines 160-161, then the next iteration
InvBackoff ==
    /\ pc = "inv_backoff"
    /\ waits' = IF ShouldSleep(attempt, max_retries) THEN waits + 1 ELSE waits
    /\ attempt' = attempt + 1
    /\ pc' = "inv_attempt"
    /\ UNCHANGED << prompt, max_retries, proc, orphans, tries, fails, stdout,
                    succeeded, result, quizVars, mainVars, genVars >>

\* line 163
InvExhausted ==
    /\ pc = "inv_attempt"
    /\ ~HasAttempt(attempt, max_retries)
    /\ result' = FAILED
    /\ succeeded' = FALSE
    /\ pc' = "inv_return"
    /\ UNCHANGED << prompt, max_retries, attempt, proc, orphans, tries, fails, waits,
                    stdout, quizVars, mainVars, genVars >>

\* a process nobody waits for ends by itself: one whose handle is gone, or the
\* one still held after communicate raised
OrphanExits ==
    /\ \/ /\ orphans > 0
          /\ orphans' = orphans - 1
          /\ UNCHANGED proc
       \/ /\ proc = "running"
          /\ pc # "inv_wait"
          /\ proc' = "exited"
          /\ UNCHANGED orphans
    /\ UNCHANGED << pc, prompt, max_retries, attempt, tries, fails, waits,
                    stdout, succeeded, result, quizVars, mainVars, genVars >>

Invoker ==
    \/ InvSpawn
    \/ InvSpawnFails
    \/ InvSuccess
    \/ InvNonZero
    \/ InvTimeout
    \/ InvCommRaises
    \/ InvBackoff
    \/ InvExhausted
    \/ OrphanExits

-----------------------------------------------------------------------------
(* main: rendering, cleanup. *)

\* a main that catches the writer's error and goes on with the next tier
AfterWriterErrorContinue(idx) == [ pc |-> "render", level_idx |-> idx + 1 ]

\* where main goes when create_level_pdf raises: out of the loop, to `finally`
AfterWriterError(idx) == [ pc |-> "cleanup", level_idx |-> idx ]

\* lines 242-244: one tier's document is written
RenderOk ==
    /\ pc = "render"
    /\ level_idx <= Len(explanations)
    /\ LET level == Tiers[level_idx]
       IN /\ docs' = Append(docs,
                       [ name  |-> OutputFilename(level),
                         story |-> Story(explanations[level_idx], title, level,
                                         content_type) ])
          /\ render_log' = Append(render_log, [ level |-> level, ok |-> TRUE ])
    /\ level_idx' = level_idx + 1
    /\ UNCHANGED << pc, pdf_file, temp_dir, title, note_text, pending, outcome, content_type,
                    max_chunk_size, chunks, chunk_idx, full_explanation, explanations,
                    call_log, quizVars, invVars >>

\* lines 242-244: the document writer raises
RenderFails ==
    /\ pc = "render"
    /\ level_idx <= Len(explanations)
    /\ render_log' = Append(render_log, [ level |-> Tiers[level_idx], ok |-> FALSE ])
    /\ pc' = AfterWriterError(level_idx).pc
    /\ level_idx' = AfterWriterError(level_idx).level_idx
    /\ pending' = "raise:render"
    /\ UNCHANGED << pdf_file, temp_dir, title, note_text, docs, outcome, content_type,
                    max_chunk_size, chunks, chunk_idx, full_explanation, explanations,
                    call_log, quizVars, invVars >>

\* the loop of line 242 is over
RenderDone ==
    /\ pc = "render"
    /\ level_idx > Len(explanations)
    /\ pending' = "return"
    /\ pc' = "cleanup"
    /\ UNCHANGED << pdf_file, temp_dir, title, note_text, render_log, docs, outcome,
                    quizVars, genVars, invVars >>

\* lines 246-247 and 230-233: rmdir removes an empty directory only
Cleanup ==
    /\ pc = "cleanup"
    /\ IF temp_dir = "nonempty"
       THEN /\ outcome' = "raise:cleanup"
            /\ UNCHANGED temp_dir
       ELSE /\ outcome' = pending
            /\ temp_dir' = IF temp_dir = "empty" THEN "absent" ELSE temp_dir
    /\ pc' = "main_left"
    /\ UNCHANGED << pdf_file, title, note_text, render_log, docs, pending,
                    quizVars, genVars, invVars >>

-----------------------------------------------------------------------------
(* orchestrate_learning from its first line, run on the short documents. *)

InvokerIdle ==
    /\ prompt = ""
    /\ max_retries = DefaultMaxRetries
    /\ attempt = 0
    /\ proc = "none"
    /\ orphans = 0
    /\ tries = 0
    /\ fails = 0
    /\ waits = 0
    /\ stdout = ""
    /\ succeeded = FALSE
    /\ result = ""

GenerateIdle ==
    /\ content_type = ""
    /\ chunks = << >>
    /\ level_idx = 0
    /\ chunk_idx = 0
    /\ full_explanation = << >>
    /\ explanations = << >>
    /\ call_log = << >>

MainIdle ==
    /\ title = ""
    /\ note_text = ""
    /\ render_log = << >>
    /\ docs = << >>
    /\ pending = "none"
    /\ outcome = "none"

QuizIdle ==
    /\ mcq_idx = 0
    /\ score = 0
    /\ appropriate_level = ""
    /\ level_pdf = ""

Init ==
    /\ pc = "quiz"
    /\ QuizIdle
    /\ pdf_file \in ShortPdfs
    /\ temp_dir \in TempDirStates
    /\ MainIdle
    /\ max_chunk_size = 0
    /\ GenerateIdle
    /\ InvokerIdle

\* main(pdf_path), lines 235-247
Main ==
    \/ Construct
    \/ Extract
    \/ StartGenerate
    \/ CallInvoker
    \/ Invoker
    \/ CollectChunk
    \/ FinishLevel
    \/ RenderOk
    \/ RenderFails
    \/ RenderDone
    \/ Cleanup

Next ==
    \/ AnswerQuestion
    \/ InvalidAnswer
    \/ FinishQuiz
    \/ PdfMissing
    \/ PdfFound
    \/ Main
    \/ Recommend

Spec == Init /\ [][Next]_vars

-----------------------------------------------------------------------------
(* main on its own, called with the path of any of the documents. *)

InitMain ==
    /\ pc = "construct"
    /\ QuizIdle
    /\ pdf_file \in Pdfs
    /\ temp_dir \in TempDirStates
    /\ MainIdle
    /\ max_chunk_size = 0
    /\ GenerateIdle
    /\ InvokerIdle

SpecMain == InitMain /\ [][Main]_vars


-----------------------------------------------------------------------------
(* The invoker on its own: one call, for every retry bound up to MaxRetries. *)

Prompts == { "p", "Please explain this business content in simple terms: \n\nmarket" }

InitInvoker ==
    /\ pc = "inv_attempt"
    /\ QuizIdle
    /\ pdf_file \in { d \in ShortPdfs : ~d.exists }
    /\ temp_dir = "empty"
    /\ MainIdle
    /\ max_chunk_size = 0
    /\ GenerateIdle
    /\ prompt \in Prompts
    /\ max_retries \in 0..MaxRetries
    /\ attempt = 0
    /\ proc = "none"
    /\ orphans = 0
    /\ tries = 0
    /\ fails = 0
    /\ waits = 0
    /\ stdout = ""
    /\ succeeded = FALSE
    /\ result = ""

SpecInvoker == InitInvoker /\ [][Invoker]_vars

-----------------------------------------------------------------------------
(* Chunking on its own: lines 171-172 for texts whose lengths lie around    *)
(* the multiples of the chunk size.                                         *)

Block7 == "Kernel "
Block49 == Block7 \o Block7 \o Block7 \o Block7 \o Block7 \o Block7 \o Block7
Block343 == Block49 \o Block49 \o Block49 \o Block49 \o Block49 \o Block49 \o Block49
Block2401 == Block343 \o Block343 \o Block343 \o Block343 \o Block343 \o Block343
             \o Block343
LongBase == Block2401 \o Block2401 \o Block2401 \o Block2401 \o Block2401 \o Block2401
            \o Block2401

TextLens ==
    { n \in 0..Len(LongBase) :
        \E k \in 0..MaxFullChunks, d \in (0 - EdgeSpan)..EdgeSpan :
            n = k * RealChunkSize + d }

InitChunk ==
    /\ pc = "chunk_in"
    /\ QuizIdle
    /\ pdf_file \in { d \in ShortPdfs : ~d.exists }
    /\ temp_dir = "empty"
    /\ title = ""
    /\ note_text \in { SubSeq(LongBase, 1, n) : n \in TextLens }
    /\ render_log = << >>
    /\ docs = << >>
    /\ pending = "none"
    /\ outcome = "none"
    /\ max_chunk_size = 0
    /\ GenerateIdle
    /\ InvokerIdle

SliceText ==
    /\ pc = "chunk_in"
    /\ max_chunk_size' = RealChunkSize
    /\ chunks' = Chunks(note_text, RealChunkSize)
    /\ pc' = "chunk_out"
    /\ UNCHANGED << content_type, level_idx, chunk_idx,
                    full_explanation, explanations, call_log,
                    quizVars, mainVars, invVars >>

SpecChunk == InitChunk /\ [][SliceText]_vars

-----------------------------------------------------------------------------
(* The classifier on its own: texts glued from up to MaxFragments pieces.  *)

MaxFragments == 3

Fragments == { "", "Data", "mod", "el ", "SYSTEM", "learn", "Market", "É" }

RECURSIVE TextsOf(_)
TextsOf(k) == IF k = 0 THEN { "" }
              ELSE { t \o f : t \in TextsOf(k - 1), f \in Fragments }

InitClassify ==
    /\ pc = "classify_in"
    /\ QuizIdle
    /\ pdf_file \in { d \in ShortPdfs : ~d.exists }
    /\ temp_dir = "empty"
    /\ title = ""
    /\ note_text \in TextsOf(MaxFragments)
    /\ render_log = << >>
    /\ docs = << >>
    /\ pending = "none"
    /\ outcome = "none"
    /\ max_chunk_size = 0
    /\ GenerateIdle
    /\ InvokerIdle

DetectType ==
    /\ pc = "classify_in"
    /\ content_type' = detect_content_type(note_text)
    /\ pc' = "classify_out"
    /\ UNCHANGED << max_chunk_size, chunks, level_idx, chunk_idx, full_explanation,
                    explanations, call_log, quizVars, mainVars, invVars >>

SpecClassify == InitClassify /\ [][DetectType]_vars


-----------------------------------------------------------------------------
(* Properties. *)

\* results the invoker returned for one tier, in call order
LevelCalls(level) == SelectSeq(call_log, LAMBDA e : e.level = level)
ResultsOf(calls) == [ i \in 1..Len(calls) |-> calls[i].result ]

MainLeft == pc \in { "main_left", "done" }

\* C1: a call whose process failed on its first N attempts and then succeeded
\* returns the trimmed output when max_retries > N, after N + 1 attempts and N
\* waits; a call whose max_retries attempts all failed returns the sentinel
\* after exactly max_retries attempts, with a wait between consecutive attempts
\* only (max_retries - 1 waits, none for max_retries = 0).
C1_RetryContract ==
    pc = "inv_return" =>
        IF succeeded
        THEN /\ result = Strip(stdout)
             /\ fails < max_retries
             /\ tries = fails + 1
             /\ waits = fails
        ELSE /\ result = FAILED
             /\ fails = max_retries
             /\ tries = max_retries
             /\ waits = IF max_retries = 0 THEN 0 ELSE max_retries - 1

C1_Witness ==
    /\ pc = "inv_return"
    /\ ~succeeded
    /\ max_retries = 3
    /\ tries = 3
    /\ waits = 2
    /\ result = FAILED

\* C2: each tier's Explanation is the tier's invoker results other than the
\* failure sentinel, in chunk order, joined by a blank line, and is
\* "No explanation generated." when no result is left.
C2_Aggregation ==
    \A i \in 1..Len(explanations) :
        LET all == ResultsOf(LevelCalls(Tiers[i]))
            kept == SelectSeq(all, LAMBDA r : r # FAILED)
        IN explanations[i] = IF kept = << >> THEN "No explanation generated."
                             ELSE Join("\n\n", kept)

C2_Witness ==
    /\ Len(explanations) = 3
    /\ Len(chunks) = 2
    /\ ~call_log[1].succeeded /\ call_log[2].succeeded /\ call_log[2].result # FAILED
    /\ explanations[1] = call_log[2].result
    /\ ~call_log[3].succeeded /\ ~call_log[4].succeeded
    /\ explanations[2] = NO_EXPLANATION
    /\ call_log[5].result # FAILED /\ call_log[6].result # FAILED
    /\ explanations[3] = call_log[5].result \o "\n\n" \o call_log[6].result

\* C3: the process an attempt spawned has ended or been killed before the next
\* attempt spawns and before the invoker returns, so at most one spawned
\* process is alive at any time.
C3_NoLeakedProcess ==
    /\ Alive <= 1
    /\ pc = "inv_return" => Alive = 0

\* C4: the invoker is called once for every (tier, chunk) pair, tiers in the
\* order beginner, intermediate, advanced and chunks in source order, whatever
\* earlier calls returned, and generation never ends in an exception.
C4_EveryChunkInvoked ==
    LET n == Len(chunks)
        expected == [ k \in 1..(Len(Tiers) * n) |->
                        << Tiers[((k - 1) \div n) + 1], ((k - 1) % n) + 1 >> ]
        made == Len(call_log)
    IN /\ made <= Len(expected)
       /\ \A k \in 1..made : << call_log[k].level, call_log[k].chunk >> = expected[k]
       /\ pc \in { "inv_attempt", "inv_wait", "inv_backoff", "inv_return" }
            => /\ made < Len(expected)
               /\ << Tiers[level_idx], chunk_idx >> = expected[made + 1]
       /\ pc \in { "gen_loop", "inv_attempt", "inv_wait", "inv_backoff", "inv_return" }
            => pending = "none"
       /\ pc \in { "render", "cleanup", "main_left", "done" } /\ pending # "raise:extract"
                /\ outcome # "raise:mkdir"
            => made = Len(expected)

C4_Witness ==
    /\ pc = "render"
    /\ Len(chunks) = 2
    /\ Len(call_log) = 6
    /\ ~call_log[1].succeeded
    /\ call_log[2].succeeded
    /\ ~call_log[3].succeeded

\* C5 as written: when the writer fails on one tier, main still attempts the
\* documents of the remaining tiers.
C5_OtherTiersStillRendered ==
    MainLeft /\ (\E i \in 1..Len(render_log) : ~render_log[i].ok)
        => Len(render_log) = Len(Tiers)

\* C5 amended: a writer failure ends the rendering: the failing tier is the
\* last one attempted, the documents written are those of the tiers before it,
\* and main is left with an error.
C5_WriterFailureEndsRendering ==
    \A i \in 1..Len(render_log) :
        ~render_log[i].ok =>
            /\ i = Len(render_log)
            /\ Len(docs) = i - 1
            /\ \A j \in 1..Len(docs) : docs[j].name = Tiers[j] \o "_guide.pdf"
            /\ pc \in { "cleanup", "main_left" }
            /\ pc = "main_left" => outcome \in { "raise:render", "raise:cleanup" }

C5_Witness ==
    /\ pc = "main_left"
    /\ Len(render_log) = 2
    /\ render_log[1].ok
    /\ ~render_log[2].ok
    /\ Len(docs) = 1

\* C6: when extraction succeeded and the writer never failed, main leaves
\* exactly three documents, beginner_guide, intermediate_guide and
\* advanced_guide, each starting with the same title block, whatever the
\* generation outcomes and whatever tier the quiz chose.
C6_ThreeDocuments ==
    ( /\ MainLeft
      /\ outcome # "raise:mkdir"
      /\ pending # "raise:extract"
      /\ \A i \in 1..Len(render_log) : render_log[i].ok )
    => /\ Len(docs) = 3
       /\ docs[1].name = "beginner_guide.pdf"
       /\ docs[2].name = "intermediate_guide.pdf"
       /\ docs[3].name = "advanced_guide.pdf"
       /\ \A i \in 1..3 : docs[i].story[1] = [ style |-> "Title", text |-> title ]

C6_Witness ==
    /\ pc = "done"
    /\ appropriate_level = "advanced"
    /\ title = "Été"
    /\ Len(chunks) = 1
    /\ explanations[1] = NO_EXPLANATION
    /\ explanations[2] # NO_EXPLANATION
    /\ Len(docs) = 3
    /\ docs[1].story[4] = [ style |-> "Topic", text |-> NO_EXPLANATION ]

\* C7: the chunks are contiguous, non-overlapping slices whose concatenation is
\* the text; all but the last have the bound's length, the last has between 1
\* and the bound's length, and there are ceil(len / bound) of them.
C7_Chunking ==
    pc = "chunk_out" =>
        LET n == Len(chunks)
            B == max_chunk_size
        IN /\ Join("", chunks) = note_text
           /\ n = (Len(note_text) + B - 1) \div B
           /\ \A k \in 1..(n - 1) : Len(chunks[k]) = B
           /\ n > 0 => Len(chunks[n]) \in 1..B
           /\ \A k \in 1..n :
                chunks[k] = SubSeq(note_text, (k - 1) * B + 1,
                                   (k - 1) * B + Len(chunks[k]))

C7_Witness ==
    /\ pc = "chunk_out"
    /\ max_chunk_size = RealChunkSize
    /\ Len(note_text) = 2 * RealChunkSize + 1
    /\ Len(chunks) = 3
    /\ Len(chunks[3]) = 1

\* C8: the category returned is one of the five, its keyword score over the
\* lower-cased text is at least every other category's, and every category
\* declared before it scores strictly less; a text without keywords is
\* classified too.
C8_Classifier ==
    pc = "classify_out" =>
        \E i \in 1..Len(Categories) :
            /\ content_type = Categories[i]
            /\ \A j \in 1..Len(Categories) :
                 KeywordScore(Lower(note_text), Categories[j])
                    <= KeywordScore(Lower(note_text), Categories[i])
            /\ \A j \in 1..(i - 1) :
                 KeywordScore(Lower(note_text), Categories[j])
                    < KeywordScore(Lower(note_text), Categories[i])

C8_Witness ==
    /\ pc = "classify_out"
    /\ content_type = "scientific"
    /\ note_text # Lower(note_text)
    /\ KeywordScore(Lower(note_text), "scientific") = 1
    /\ KeywordScore(Lower(note_text), "business") = 1

\* C9: when main is left, the temporary directory it acquired is gone and the
\* cleanup step has not replaced the outcome of the try block by an error of
\* its own.
C9_TempDirReleased ==
    MainLeft /\ outcome # "raise:mkdir"
        => /\ temp_dir = "absent"
           /\ outcome = pending

\* C10: every chunk whose generation succeeded contributes its trimmed output
\* to its tier's Explanation; only chunks whose retries were exhausted are left
\* out.
C10_SucceededChunksContribute ==
    \A i \in 1..Len(explanations) :
        LET ok == ResultsOf(SelectSeq(LevelCalls(Tiers[i]), LAMBDA e : e.succeeded))
        IN explanations[i] = IF ok = << >> THEN NO_EXPLANATION ELSE Join("\n\n", ok)

=============================================================================
